---- MODULE Spec2Model ----
(***************************************************************************)
(* A state-machine model of the headless Switch of                         *)
(* packages/@headlessui-react/src/components/switch/switch.tsx:            *)
(* one Switch (the Toggle), optionally inside a Switch.Group with one      *)
(* Switch.Label, optionally inside a native form.  Inside a Group there    *)
(* may also be Switch.Description instances and a second Switch.           *)
(*                                                                         *)
(* Every user gesture (click, key event, label click, form reset) and      *)
(* every lifecycle step (mount, re-render by the caller, unmount) is one   *)
(* action.  A gesture action runs the whole handler chain synchronously,   *)
(* records in ev.log every observable call in call order, and commits the  *)
(* resulting render.                                                       *)
(***************************************************************************)
EXTENDS Integers, Sequences, FiniteSets, TLC

\* Longest run of consecutive clicks since mount that clickSeq keeps counting.
MaxClicks == 3
\* Most reset listeners one Toggle may have accumulated on its form.
MaxListeners == 2

-----------------------------------------------------------------------------
(* Optional booleans: a prop that may be left out (undefined).             *)

Undefined == [defined |-> FALSE, value |-> FALSE]
Some(b) == [defined |-> TRUE, value |-> b]
OptBool == {Undefined} \cup {Some(b) : b \in BOOLEAN}

\* The key names handleKeyUp looks at, and one key it ignores.
Space == "Space"
Enter == "Enter"
OtherKey == "a"
KeyNames == {Space, Enter, OtherKey}

\* (name, value) props of the Toggle; "null" stands for a prop left out.
NameValues ==
  { [name |-> "null", value |-> "null"],
    [name |-> "consent", value |-> "null"],
    [name |-> "consent", value |-> "yes"] }

\* The props a caller may pass to <Switch>.
SwitchProps ==
  { [checked |-> c, defaultChecked |-> d, onChange |-> o,
     name |-> nv.name, value |-> nv.value] :
       c \in OptBool, d \in OptBool, o \in BOOLEAN, nv \in NameValues }

NoProps ==
  [checked |-> Undefined, defaultChecked |-> Undefined, onChange |-> FALSE,
   name |-> "null", value |-> "null"]

\* Where the Toggle is placed: inside a native form or not, inside a
\* Switch.Group or not, and, inside a Group, the tag of the Switch.Label
\* and whether the Label element contains the Toggle element.
Layouts ==
  { [inForm |-> f, inGroup |-> FALSE, labelTag |-> "none", labelWraps |-> FALSE] :
      f \in BOOLEAN }
  \cup
  { [inForm |-> f, inGroup |-> TRUE, labelTag |-> t, labelWraps |-> w] :
      f \in BOOLEAN, t \in {"LABEL", "SPAN"}, w \in BOOLEAN }

VARIABLES
  layout,            \* the element tree around the Toggle (fixed): closest('form')
                     \* (l.177), GroupContext (l.132), the Label's tagName (l.71)
  mounted,           \* is the Toggle (SwitchFn, l.118) mounted
  props,             \* the props of the latest render (l.123-131)
  isControlled,      \* ownership mode of useControllable (l.140)
  internalValue,     \* useControllable's internal state (l.140)
  platformDisabled,  \* what isDisabledReactIssue7711 returns for the Toggle (l.144)
  switchElement,     \* the Group's switchElement state (l.51)
  listeners,         \* reset listeners of the Toggle registered on the form (l.181)
  rendered,          \* the committed output of SwitchFn (l.186-204)
  ev,                \* the last event and every call it made, in order
  clickSeq,          \* clicks since mount when nothing else happened, else -1
  descriptions,      \* ids of the Descriptions mounted in the Group (l.53)
  second,            \* a second Toggle mounted in the same Group
  registered         \* the mounted Toggles' elements, in mount order

vars ==
  << layout, mounted, props, isControlled, internalValue, platformDisabled,
     switchElement, listeners, rendered, ev, clickSeq,
     descriptions, second, registered >>

-----------------------------------------------------------------------------
(* The log of one event.                                                   *)

BoolStr(b) == IF b THEN "true" ELSE "false"
\* The Toggle's onChange (the second element useControllable returns).
OnChangeTok(b) == "onChange(" \o BoolStr(b) \o ")"
\* The caller's onChange prop.
CallerTok(b) == "props.onChange(" \o BoolStr(b) \o ")"

\* A handler chain threads the log and useControllable's internal state
\* (of the Toggle and of the second Toggle).
Start ==
  [log |-> <<>>, internalValue |-> internalValue, secondChecked |-> second.checked]
Log(s, tok) == [s EXCEPT !.log = Append(@, tok)]

Count(log, tok) == Cardinality({i \in 1..Len(log) : log[i] = tok})
Has(log, tok) == Count(log, tok) > 0
First(log, tok) ==
  IF Has(log, tok)
    THEN CHOOSE i \in 1..Len(log) :
           log[i] = tok /\ \A j \in 1..(i - 1) : log[j] # tok
    ELSE 0
OnChangeCalls(log) == Count(log, OnChangeTok(TRUE)) + Count(log, OnChangeTok(FALSE))
CallerCalls(log) == Count(log, CallerTok(TRUE)) + Count(log, CallerTok(FALSE))

NoEvent ==
  [kind |-> "none", key |-> "none", before |-> FALSE, disabled |-> FALSE,
   log |-> <<>>]

-----------------------------------------------------------------------------
(* SwitchFn: props, state and render.                                      *)

\* The destructuring default `defaultChecked = false`.
DefaultChecked(p) ==
  IF p.defaultChecked.defined THEN p.defaultChecked ELSE Some(FALSE)

\* First element useControllable returns.
CheckedOf(p, controlled, internal) ==
  IF controlled THEN p.checked.value ELSE internal

\* Variant of checked that reads the internal state whatever the mode.
CheckedFromInternalState == internalValue

Checked == CheckedOf(props, isControlled, internalValue)

\* Second element useControllable returns, called with `value`.
OnChange(s, value) ==
  LET s1 == Log(s, OnChangeTok(value))
      s2 == IF isControlled THEN s1 ELSE [s1 EXCEPT !.internalValue = value]
  IN  IF props.onChange THEN Log(s2, CallerTok(value)) ELSE s2

\* Variant of the hidden checkbox rendered whenever name is given.
HiddenInputsWheneverNamed(p, checked) ==
  IF p.name # "null"
    THEN {[name |-> p.name, value |-> p.value, checked |-> checked]}
    ELSE {}

\* The hidden checkbox of the returned fragment.
HiddenInputs(p, checked) ==
  IF p.name # "null" /\ checked
    THEN {[name |-> p.name, value |-> p.value, checked |-> checked]}
    ELSE {}

\* Optional strings: an attribute that may be undefined.
NoString == [defined |-> FALSE, value |-> ""]
SomeString(str) == [defined |-> TRUE, value |-> str]

\* The ids useId gives the Group's Description instances.
DescriptionIds == {"d1", "d2"}

\* ids.join(' ')
RECURSIVE JoinIds(_)
JoinIds(ids) ==
  IF ids = <<>> THEN ""
  ELSE IF Len(ids) = 1 THEN Head(ids)
  ELSE Head(ids) \o " " \o JoinIds(Tail(ids))

\* describedby of useDescriptions: the joined ids, undefined without any.
GroupDescribedBy(ids) ==
  IF ids = <<>> THEN NoString ELSE SomeString(JoinIds(ids))

\* Variant of aria-describedby that is never set.
AriaDescribedByNeverSet(ids) == NoString

\* 'aria-describedby': groupContext?.describedby
AriaDescribedBy(ids) ==
  IF layout.inGroup THEN GroupDescribedBy(ids) ELSE NoString

\* What SwitchFn returns: the Toggle element and the hidden inputs.
Render(p, checked) ==
  [switch |-> TRUE, ariaChecked |-> checked, hidden |-> HiddenInputs(p, checked),
   describedby |-> AriaDescribedBy(descriptions)]

NoRender ==
  [switch |-> FALSE, ariaChecked |-> FALSE, hidden |-> {}, describedby |-> NoString]

-----------------------------------------------------------------------------
(* The Toggle's event handlers.                                            *)

\* Variant of toggle that forgets the negation: onChange?.(checked).
ToggleKeepsValue(s) == OnChange(s, Checked)

\* toggle: onChange?.(!checked), with the checked of the committed render.
Toggle(s) == OnChange(s, ~Checked)

\* Variant of handleClick that calls toggle() twice.
HandleClickTogglesTwice(s) ==
  LET s0 == Log(s, "onClick")
  IN  IF platformDisabled
        THEN Log(s0, "preventDefault")
        ELSE OnChange(OnChange(Log(s0, "preventDefault"), ~Checked), ~Checked)

\* Variant of handleClick without the isDisabledReactIssue7711 guard.
HandleClickIgnoresDisabled(s) ==
  OnChange(Log(Log(s, "onClick"), "preventDefault"), ~Checked)

\* Variant of handleClick that toggles first and cancels the event after.
HandleClickTogglesBeforeCancel(s) ==
  LET s0 == Log(s, "onClick")
  IN  IF platformDisabled
        THEN Log(s0, "preventDefault")
        ELSE Log(Toggle(s0), "preventDefault")

\* handleClick, the Toggle's onClick.
HandleClick(s) ==
  LET s0 == Log(s, "onClick")
  IN  IF platformDisabled
        THEN Log(s0, "preventDefault")
        ELSE Toggle(Log(s0, "preventDefault"))

\* attemptSubmit(event.currentTarget): submits the closest form, if any.
AttemptSubmit(s) ==
  LET s0 == Log(s, "attemptSubmit")
  IN  IF layout.inForm THEN Log(s0, "form.requestSubmit") ELSE s0

\* Variant of handleKeyUp whose Space branch falls through into the Enter
\* branch (two `if`s instead of `if / else if`, and Enter also activates).
HandleKeyUpEnterActivates(s, key) ==
  IF key = Space
    THEN AttemptSubmit(Toggle(Log(s, "preventDefault")))
    ELSE IF key = Enter THEN AttemptSubmit(Toggle(s)) ELSE s

\* Variant of handleKeyUp that, like handleClick, returns early when the
\* Toggle is judged platform-disabled.
HandleKeyUpGuardsDisabled(s, key) ==
  IF platformDisabled
    THEN Log(s, "preventDefault")
    ELSE IF key = Space
           THEN Toggle(Log(s, "preventDefault"))
           ELSE IF key = Enter THEN AttemptSubmit(s) ELSE s

\* handleKeyUp, the Toggle's onKeyUp.
HandleKeyUp(s, key) ==
  IF key = Space
    THEN Toggle(Log(s, "preventDefault"))
    ELSE IF key = Enter THEN AttemptSubmit(s) ELSE s

\* Variant of handleKeyPress that also activates the Toggle.
HandleKeyPressActivates(s) == Toggle(Log(s, "preventDefault"))

\* handleKeyPress, the Toggle's onKeyPress.
HandleKeyPress(s) == Log(s, "preventDefault")

-----------------------------------------------------------------------------
(* The Group's Label handler and the dispatch of click events.             *)
(*                                                                         *)
(* A click event fired at the Toggle runs handleClick and then bubbles; if *)
(* the Label element contains the Toggle, the Label's onClick runs next.   *)
(* HTMLElement.click() fires a click event unless a click() of the same    *)
(* element is already in progress (the DOM's click-in-progress flag).      *)

RECURSIVE LabelOnClick(_, _, _)
RECURSIVE FireSwitchClick(_, _)

\* The calls the Label's handler makes on the registered element.
ClickTok == switchElement \o ".click"
FocusTok == switchElement \o ".focus"

\* handleClick of the second Toggle (Uncontrolled, no props, not judged
\* platform-disabled); the Label does not contain this Toggle.
SecondHandleClick(s) ==
  LET s0 == Log(Log(s, "switch2.onClick"), "switch2.preventDefault")
      s1 == Log(s0, "switch2." \o OnChangeTok(~s.secondChecked))
  IN  [s1 EXCEPT !.secondChecked = ~s.secondChecked]

\* switchElement.click()
ElementClick(s, inProgress) ==
  IF switchElement = "switch2"
    THEN SecondHandleClick(s)
    ELSE IF inProgress THEN s ELSE FireSwitchClick(s, TRUE)

\* A click event at the Toggle element: target phase, then bubbling.
FireSwitchClick(s, inProgress) ==
  LET s1 == HandleClick(s)
  IN  IF layout.inGroup /\ layout.labelWraps
        THEN LabelOnClick(s1, FALSE, inProgress)
        ELSE s1

\* Variant of the Label's onClick that cancels the event when the Label is
\* NOT a native <label> (tagName !== 'LABEL').
LabelOnClickCancelsNonLabel(s, ownEvent, inProgress) ==
  IF switchElement = "null"
    THEN s
    ELSE LET s1 == IF layout.labelTag # "LABEL"
                     THEN Log(s, IF ownEvent THEN "label.preventDefault"
                                             ELSE "preventDefault")
                     ELSE s
             s2 == ElementClick(Log(s1, ClickTok), inProgress)
         IN  Log(s2, FocusTok)

\* Variant of the Label's onClick that focuses the Toggle before clicking it.
LabelOnClickFocusesFirst(s, ownEvent, inProgress) ==
  IF switchElement = "null"
    THEN s
    ELSE LET s1 == IF layout.labelTag = "LABEL"
                     THEN Log(s, IF ownEvent THEN "label.preventDefault"
                                             ELSE "preventDefault")
                     ELSE s
             s2 == Log(s1, FocusTok)
         IN  ElementClick(Log(s2, ClickTok), inProgress)

\* Variant of the Label's onClick that cancels the event before it looks
\* at switchElement.
LabelOnClickCancelsBeforeGuard(s, ownEvent, inProgress) ==
  LET s1 == IF layout.labelTag = "LABEL"
              THEN Log(s, IF ownEvent THEN "label.preventDefault"
                                      ELSE "preventDefault")
              ELSE s
  IN  IF switchElement = "null"
        THEN s1
        ELSE Log(ElementClick(Log(s1, ClickTok), inProgress), FocusTok)

\* The onClick the Group passes to its Label.  ownEvent: the event is the
\* user's click on the Label (otherwise it is a Toggle click bubbling up).
LabelOnClick(s, ownEvent, inProgress) ==
  IF switchElement = "null"
    THEN s
    ELSE LET s1 == IF layout.labelTag = "LABEL"
                     THEN Log(s, IF ownEvent THEN "label.preventDefault"
                                             ELSE "preventDefault")
                     ELSE s
             s2 == ElementClick(Log(s1, ClickTok), inProgress)
         IN  Log(s2, FocusTok)

\* The default action of a click on a native <label>: unless the event was
\* cancelled, the labelled control (htmlFor = context.switch?.id, or the
\* contained Toggle) is clicked.
LabelDefaultAction(s) ==
  IF /\ layout.labelTag = "LABEL"
     /\ switchElement # "null"
     /\ ~Has(s.log, "label.preventDefault")
    THEN ElementClick(Log(s, "label.activation"), FALSE)
    ELSE s

-----------------------------------------------------------------------------
(* The reset listener effect.                                              *)

\* The useEffect body: adds a reset listener to the closest form.  The
\* listener closes over the defaultChecked of the render the effect ran in.
ResetEffect(p, ls) ==
  IF ~layout.inForm
    THEN ls
    ELSE IF ~DefaultChecked(p).defined
           THEN ls
           ELSE Append(ls, [defaultChecked |-> DefaultChecked(p).value])

\* Variant of the reset listeners that read defaultChecked of the latest
\* render instead of the value they closed over.
RECURSIVE RunListenersLatestDefault(_, _)
RunListenersLatestDefault(s, ls) ==
  IF ls = <<>>
    THEN s
    ELSE RunListenersLatestDefault(OnChange(s, DefaultChecked(props).value), Tail(ls))

\* The form's reset event: every registered listener runs, in order.
RECURSIVE RunListeners(_, _)
RunListeners(s, ls) ==
  IF ls = <<>>
    THEN s
    ELSE RunListeners(OnChange(s, Head(ls).defaultChecked), Tail(ls))

-----------------------------------------------------------------------------
(* Actions.                                                                *)

Event(kind, key, s) ==
  [kind |-> kind, key |-> key, before |-> Checked,
   disabled |-> platformDisabled, log |-> s.log]

\* Commit of a gesture: state update, re-render, and the event record.
Commit(kind, key, s, counts) ==
  /\ internalValue' = s.internalValue
  /\ rendered' = IF mounted
                   THEN Render(props, CheckedOf(props, isControlled, s.internalValue))
                   ELSE NoRender
  /\ ev' = Event(kind, key, s)
  /\ clickSeq' = IF counts /\ clickSeq >= 0 /\ clickSeq < MaxClicks
                   THEN clickSeq + 1
                   ELSE -1
  /\ second' = [second EXCEPT !.checked = s.secondChecked]
  /\ UNCHANGED << layout, mounted, props, isControlled, platformDisabled,
                  switchElement, listeners, descriptions, registered >>

\* Variant of the ref registration that never reaches the Group.
SetSwitchNotForwarded(element) == switchElement

\* Variant of the ref forwarding that ignores the null of an unmount.
SetSwitchKeepsOnUnmount(element) ==
  IF layout.inGroup /\ element # "null" THEN element ELSE switchElement

\* The third ref of useSyncRefs: groupContext.setSwitch inside a Group,
\* null (nothing to set) outside.
SetSwitch(element) == IF layout.inGroup THEN element ELSE switchElement

\* htmlFor of the Group's Label: context.switch?.id.
LabelHtmlFor == IF switchElement = "null" THEN "undefined" ELSE switchElement

\* First render and commit of <Switch {...p}>.
Mount(p, dis) ==
  /\ ~mounted
  /\ mounted' = TRUE
  /\ props' = p
  /\ isControlled' = p.checked.defined
  /\ internalValue' = DefaultChecked(p).value
  /\ platformDisabled' = dis
  /\ switchElement' = SetSwitch("switch")
  /\ listeners' = ResetEffect(p, <<>>)
  /\ rendered' = Render(p, CheckedOf(p, p.checked.defined, DefaultChecked(p).value))
  /\ ev' = [NoEvent EXCEPT !.kind = "mount"]
  /\ clickSeq' = 0
  /\ registered' = Append(registered, "switch")
  /\ UNCHANGED << layout, descriptions, second >>

\* Variant of the ownership mode that follows the latest render's props.
OwnershipFollowsProps(mode, p) == p.checked.defined

\* The ownership mode useControllable works in after a later render with
\* props p: the mode of the first render.
OwnershipAfterRender(mode, p) == mode

\* The caller renders the Toggle again: it may pass another checked (or
\* add or drop the prop) and another defaultChecked value (passed stays
\* passed, left out stays out), and the platform's disabled judgement may
\* have changed.
\* depChanged: the identity of onChange differs from the previous render,
\* so the reset effect runs again.
Rerender(c, d, dis, depChanged) ==
  LET p == [props EXCEPT
              !.checked = c,
              !.defaultChecked = IF @.defined THEN Some(d) ELSE @]
  IN  /\ mounted
      /\ depChanged => Len(listeners) < MaxListeners
      /\ props' = p
      /\ platformDisabled' = dis
      /\ listeners' = IF depChanged THEN ResetEffect(p, listeners) ELSE listeners
      /\ isControlled' = OwnershipAfterRender(isControlled, p)
      /\ rendered' = Render(p, CheckedOf(p, isControlled', internalValue))
      /\ ev' = [NoEvent EXCEPT !.kind = "rerender"]
      /\ clickSeq' = -1
      /\ UNCHANGED << layout, mounted, internalValue, switchElement,
                      descriptions, second, registered >>

\* The Toggle unmounts: its ref is called with null, its disposables run.
Unmount ==
  /\ mounted
  /\ mounted' = FALSE
  /\ props' = NoProps
  /\ isControlled' = FALSE
  /\ internalValue' = FALSE
  /\ platformDisabled' = FALSE
  /\ switchElement' = "null"
  /\ listeners' = <<>>
  /\ rendered' = NoRender
  /\ ev' = [NoEvent EXCEPT !.kind = "unmount"]
  /\ clickSeq' = -1
  /\ registered' = SelectSeq(registered, LAMBDA e : e # "switch")
  /\ UNCHANGED << layout, descriptions, second >>

\* The user clicks the Toggle element.
Click ==
  /\ mounted
  /\ Commit("click", "none", FireSwitchClick(Start, FALSE), ~platformDisabled)

\* The user releases a key on the focused Toggle.
KeyUp(key) ==
  /\ mounted
  /\ Commit("keyup", key, HandleKeyUp(Start, key), FALSE)

\* A keypress event on the focused Toggle.
KeyPress(key) ==
  /\ mounted
  /\ Commit("keypress", key, HandleKeyPress(Start), FALSE)

\* The user clicks the Group's Label (not the Toggle inside it).
LabelClick ==
  /\ layout.inGroup
  /\ Commit("labelclick", "none",
            LabelDefaultAction(LabelOnClick(Start, TRUE, FALSE)), FALSE)

\* The enclosing form is reset.
FormReset ==
  /\ layout.inForm
  /\ Commit("reset", "none", RunListeners(Start, listeners), FALSE)

\* A second <Switch /> mounts in the Group: its ref reaches setSwitch.
MountSecond ==
  /\ layout.inGroup
  /\ ~second.mounted
  /\ second' = [mounted |-> TRUE, checked |-> FALSE]
  /\ switchElement' = SetSwitch("switch2")
  /\ registered' = Append(registered, "switch2")
  /\ ev' = [NoEvent EXCEPT !.kind = "mount2"]
  /\ clickSeq' = -1
  /\ UNCHANGED << layout, mounted, props, isControlled, internalValue,
                  platformDisabled, listeners, rendered, descriptions >>

\* The second Toggle unmounts: its ref is called with null.
UnmountSecond ==
  /\ second.mounted
  /\ second' = [mounted |-> FALSE, checked |-> FALSE]
  /\ switchElement' = SetSwitch("null")
  /\ registered' = SelectSeq(registered, LAMBDA e : e # "switch2")
  /\ ev' = [NoEvent EXCEPT !.kind = "unmount2"]
  /\ clickSeq' = -1
  /\ UNCHANGED << layout, mounted, props, isControlled, internalValue,
                  platformDisabled, listeners, rendered, descriptions >>

\* The user clicks the second Toggle.
ClickSecond ==
  /\ second.mounted
  /\ Commit("click2", "none", SecondHandleClick(Start), FALSE)

\* The Group's describedby changed: the context is recreated and the
\* Toggle renders again with it.
DescriptionsChanged(ids) ==
  /\ descriptions' = ids
  /\ rendered' = IF mounted
                   THEN [rendered EXCEPT !.describedby = AriaDescribedBy(ids)]
                   ELSE rendered
  /\ ev' = [NoEvent EXCEPT !.kind = "description"]
  /\ clickSeq' = -1
  /\ UNCHANGED << layout, mounted, props, isControlled, internalValue,
                  platformDisabled, switchElement, listeners, second, registered >>

\* A <Switch.Description> with this id mounts in the Group.
MountDescription(id) ==
  /\ layout.inGroup
  /\ \A i \in 1..Len(descriptions) : descriptions[i] # id
  /\ DescriptionsChanged(Append(descriptions, id))

\* The <Switch.Description> with this id unmounts.
UnmountDescription(id) ==
  /\ \E i \in 1..Len(descriptions) : descriptions[i] = id
  /\ DescriptionsChanged(SelectSeq(descriptions, LAMBDA e : e # id))

Init ==
  /\ layout \in Layouts
  /\ mounted = FALSE
  /\ props = NoProps
  /\ isControlled = FALSE
  /\ internalValue = FALSE
  /\ platformDisabled = FALSE
  /\ switchElement = "null"
  /\ listeners = <<>>
  /\ rendered = NoRender
  /\ ev = NoEvent
  /\ clickSeq = -1
  /\ descriptions = <<>>
  /\ second = [mounted |-> FALSE, checked |-> FALSE]
  /\ registered = <<>>

Next ==
  \/ \E p \in SwitchProps, dis \in BOOLEAN : Mount(p, dis)
  \/ \E c \in OptBool, d \in BOOLEAN, dis \in BOOLEAN, dep \in BOOLEAN :
       Rerender(c, d, dis, dep)
  \/ Unmount
  \/ Click
  \/ \E key \in KeyNames : KeyUp(key)
  \/ \E key \in KeyNames : KeyPress(key)
  \/ LabelClick
  \/ FormReset

Spec == Init /\ [][Next]_vars

\* The props of the Toggle in the runs that exercise the Group's members.
GroupProps ==
  { p \in SwitchProps : ~p.defaultChecked.defined /\ p.name = "null" }

\* The Group with its members: Toggles and Descriptions mount and unmount
\* in any order, outside a form.
GroupInit == Init /\ ~layout.inForm

GroupNext ==
  \/ \E p \in GroupProps, dis \in BOOLEAN : Mount(p, dis)
  \/ Unmount
  \/ MountSecond
  \/ UnmountSecond
  \/ \E id \in DescriptionIds : MountDescription(id)
  \/ \E id \in DescriptionIds : UnmountDescription(id)
  \/ Click
  \/ ClickSecond
  \/ LabelClick

SpecGroup == GroupInit /\ [][GroupNext]_vars

TypeOK ==
  /\ layout \in Layouts
  /\ mounted \in BOOLEAN
  /\ props \in SwitchProps
  /\ isControlled \in BOOLEAN
  /\ internalValue \in BOOLEAN
  /\ platformDisabled \in BOOLEAN
  /\ switchElement \in {"null", "switch", "switch2"}
  /\ second \in [mounted : BOOLEAN, checked : BOOLEAN]
  /\ \A i \in 1..Len(descriptions) : descriptions[i] \in DescriptionIds
  /\ \A i \in 1..Len(registered) : registered[i] \in {"switch", "switch2"}
  /\ Len(listeners) <= MaxListeners
  /\ clickSeq \in -1..MaxClicks

-----------------------------------------------------------------------------
(* Properties.                                                             *)

WrappedByLabel == layout.inGroup /\ layout.labelWraps

\* C1: an Uncontrolled Toggle mounted with defaultChecked = false is, after
\* N clicks on a Toggle not judged platform-disabled and nothing else since
\* mount, checked exactly when N is odd.
C1_ClickParity ==
  (mounted /\ ~isControlled /\ ~DefaultChecked(props).value /\ clickSeq >= 0)
    => /\ Checked = (clickSeq % 2 = 1)
       /\ rendered.ariaChecked = Checked

C1_Witness ==
  /\ mounted /\ ~isControlled /\ ~DefaultChecked(props).value
  /\ clickSeq = 3 /\ Checked /\ ev.kind = "click"

\* C2 (state part): every click event handled by a Controlled Toggle calls
\* onChange exactly once, with the negation of the supplied checked, calls
\* the caller's onChange the same way, and leaves checked as rendered.
C2_ClickOfControlled ==
  (ev.kind = "click" /\ isControlled /\ ~ev.disabled)
    => /\ Count(ev.log, "onClick") >= 1
       /\ ~WrappedByLabel => Count(ev.log, "onClick") = 1
       /\ Count(ev.log, OnChangeTok(~ev.before)) = Count(ev.log, "onClick")
       /\ Count(ev.log, OnChangeTok(ev.before)) = 0
       /\ props.onChange =>
            Count(ev.log, CallerTok(~ev.before)) = Count(ev.log, "onClick")
       /\ Count(ev.log, CallerTok(ev.before)) = 0
       /\ Checked = ev.before
       /\ rendered.ariaChecked = ev.before

\* C2 (step part): a click right after a click, with no re-render between
\* them, makes the same calls with the same arguments.
C2_SecondClickSameCalls ==
  (/\ ev.kind = "click" /\ ev'.kind = "click"
   /\ isControlled /\ ~ev.disabled /\ ~ev'.disabled)
    => ev'.log = ev.log

C3_SpaceEnterExclusive ==
  (ev.kind = "keyup")
    => /\ ev.key = Space =>
            /\ OnChangeCalls(ev.log) = 1
            /\ Count(ev.log, OnChangeTok(~ev.before)) = 1
            /\ ~Has(ev.log, "attemptSubmit")
            /\ ~Has(ev.log, "form.requestSubmit")
       /\ ev.key = Enter =>
            /\ Count(ev.log, "attemptSubmit") = 1
            /\ Has(ev.log, "form.requestSubmit") = layout.inForm
            /\ OnChangeCalls(ev.log) = 0
            /\ CallerCalls(ev.log) = 0
            /\ Checked = ev.before
            /\ rendered.ariaChecked = ev.before

C3_Witness ==
  /\ ev.kind = "keyup" /\ ev.key = Enter /\ layout.inForm
  /\ ~isControlled /\ Checked

\* C4: a click on a Toggle judged platform-disabled never calls onChange
\* and leaves checked unchanged, and the click's default action is
\* suppressed.
C4_DisabledClick ==
  (ev.kind = "click" /\ ev.disabled)
    => /\ OnChangeCalls(ev.log) = 0
       /\ CallerCalls(ev.log) = 0
       /\ Checked = ev.before
       /\ rendered.ariaChecked = ev.before
       /\ Len(ev.log) >= 2
       /\ ev.log[1] = "onClick" /\ ev.log[2] = "preventDefault"

C4_Witness ==
  /\ ev.kind = "click" /\ ev.disabled /\ ~isControlled /\ props.onChange

\* C5: the hidden checkbox is rendered (exactly one, with name, value and
\* checked = true) if and only if name is not null and checked is true.
C5_HiddenInput ==
  /\ mounted =>
       /\ rendered.switch
       /\ (rendered.hidden # {}) = (props.name # "null" /\ Checked)
       /\ Cardinality(rendered.hidden) <= 1
       /\ \A h \in rendered.hidden :
            h.checked /\ h.name = props.name /\ h.value = props.value
  /\ ~mounted => rendered.hidden = {}

C5_Witness ==
  /\ mounted /\ ev.kind = "click" /\ ~ev.before /\ Checked
  /\ rendered.hidden = {[name |-> "consent", value |-> "yes", checked |-> TRUE]}

\* C6: a form reset reapplies defaultChecked through onChange only if
\* defaultChecked was passed at mount; a Toggle mounted in a form without a
\* defaultChecked prop gets no onChange call on reset.
C6_ResetOnlyWithDefault ==
  (ev.kind = "reset" /\ mounted)
    => /\ props.defaultChecked.defined => OnChangeCalls(ev.log) >= 1
       /\ ~props.defaultChecked.defined =>
            OnChangeCalls(ev.log) = 0 /\ CallerCalls(ev.log) = 0

\* C7: one click on the Label of a Group with a mounted Toggle (not judged
\* platform-disabled, the case of C4) makes the Toggle handle exactly one
\* click and call onChange(!checked) exactly once, whatever the Label's tag
\* and whether or not the Label contains the Toggle.
C7_LabelClickTogglesOnce ==
  (ev.kind = "labelclick" /\ mounted /\ ~ev.disabled)
    => /\ Count(ev.log, "onClick") = 1
       /\ OnChangeCalls(ev.log) = 1
       /\ Count(ev.log, OnChangeTok(~ev.before)) = 1
       /\ props.onChange =>
            CallerCalls(ev.log) = 1 /\ Count(ev.log, CallerTok(~ev.before)) = 1
       /\ ~isControlled => Checked = ~ev.before /\ rendered.ariaChecked = Checked

C7_Witness ==
  /\ ev.kind = "labelclick" /\ mounted /\ ~ev.disabled
  /\ layout.labelTag = "LABEL" /\ layout.labelWraps
  /\ ~isControlled /\ props.onChange /\ Checked

\* C8 as stated: the Label's handler cancels the Label's own click if the
\* Label is not a native <label>, then clicks and then focuses the Toggle.
C8_CancelsIfNotNativeLabel ==
  (ev.kind = "labelclick" /\ switchElement # "null")
    => /\ Has(ev.log, "label.preventDefault") = (layout.labelTag # "LABEL")
       /\ Has(ev.log, "switch.click") /\ Has(ev.log, "switch.focus")
       /\ First(ev.log, "switch.click") < First(ev.log, "switch.focus")

\* C8 amended: the Label's handler cancels the Label's own click if the
\* Label IS a native <label> (and only then), before anything else, then
\* clicks and then focuses the Toggle; the focus is the last call.
C8_CancelsIfNativeLabel ==
  (ev.kind = "labelclick" /\ switchElement # "null")
    => /\ Has(ev.log, "label.preventDefault") = (layout.labelTag = "LABEL")
       /\ layout.labelTag = "LABEL" =>
            ev.log[1] = "label.preventDefault" /\ ev.log[2] = "switch.click"
       /\ layout.labelTag # "LABEL" => ev.log[1] = "switch.click"
       /\ Has(ev.log, "switch.focus")
       /\ First(ev.log, "switch.click") < First(ev.log, "switch.focus")
       /\ ev.log[Len(ev.log)] = "switch.focus"

C8_Witness ==
  /\ ev.kind = "labelclick" /\ switchElement # "null"
  /\ layout.labelTag = "LABEL" /\ ~layout.labelWraps
  /\ Has(ev.log, "label.preventDefault") /\ Has(ev.log, "switch.focus")

\* C9: a Label click while no Toggle is registered (switchElement is null)
\* does nothing: no preventDefault, no click(), no focus(), no onChange.
C9_LabelClickWithoutToggle ==
  (ev.kind = "labelclick" /\ switchElement = "null")
    => /\ ev.log = <<>>
       /\ ~mounted
       /\ rendered = NoRender

C9_Witness ==
  /\ ev.kind = "labelclick" /\ switchElement = "null"
  /\ layout.labelTag = "LABEL"

\* C10: at most one reset listener of the Toggle is registered on the form
\* at any time, none after the Toggle unmounts, and one form reset causes at
\* most one onChange call.
C10_AtMostOneListener ==
  /\ Len(listeners) <= 1
  /\ ~mounted => listeners = <<>>
  /\ ev.kind = "reset" => OnChangeCalls(ev.log) <= 1

\* C13: a Toggle given checked but no onChange keeps its checked value
\* through click, Space release and form reset, and the caller is never
\* called.
C13_ControlledWithoutOnChange ==
  (/\ mounted /\ isControlled /\ props.checked.defined /\ ~props.onChange
   /\ (ev.kind \in {"click", "reset"} \/ (ev.kind = "keyup" /\ ev.key = Space)))
    => /\ Checked = ev.before
       /\ Checked = props.checked.value
       /\ rendered.ariaChecked = props.checked.value
       /\ CallerCalls(ev.log) = 0

C13_Witness ==
  /\ mounted /\ isControlled /\ props.checked.defined /\ ~props.onChange
  /\ props.checked.value /\ ~DefaultChecked(props).value
  /\ ev.kind = "reset" /\ OnChangeCalls(ev.log) = 1

\* C14: within a click or a Space key-up (and a Label click replayed onto
\* the Toggle) every onChange call comes right after the preventDefault of
\* the event being handled.
C14_CancelBeforeOnChange ==
  (ev.kind \in {"click", "labelclick"} \/ (ev.kind = "keyup" /\ ev.key = Space))
    => \A i \in 1..Len(ev.log) :
         ev.log[i] \in {OnChangeTok(TRUE), OnChangeTok(FALSE)}
           => i > 1 /\ ev.log[i - 1] = "preventDefault"

C14_Witness ==
  /\ ev.kind = "click" /\ ~ev.disabled /\ props.onChange
  /\ ~WrappedByLabel
  /\ ev.log = << "onClick", "preventDefault",
                 OnChangeTok(~ev.before), CallerTok(~ev.before) >>

\* C15: the Group's reference is null whenever its Toggle is not mounted
\* (a Label click is then a no-op and the Label's htmlFor is undefined),
\* and is the Toggle's element whenever the Toggle is mounted, so a Label
\* click then clicks the mounted Toggle.
C15_ReferenceFollowsMount ==
  /\ switchElement # "null" => mounted
  /\ (layout.inGroup /\ mounted) =>
       switchElement = "switch" /\ LabelHtmlFor = "switch"
  /\ ~mounted => LabelHtmlFor = "undefined"
  /\ (ev.kind = "labelclick" /\ ~mounted) => ev.log = <<>>
  /\ (ev.kind = "labelclick" /\ mounted) =>
       Has(ev.log, "switch.click") /\ Count(ev.log, "onClick") = 1

C15_Witness ==
  /\ layout.inGroup /\ ev.kind = "unmount"
  /\ switchElement = "null" /\ LabelHtmlFor = "undefined"

\* C17 as stated: no activation path calls onChange on a Toggle judged
\* platform-disabled: neither a click nor a Space release.
C17_NoActivationWhenDisabled ==
  (/\ ev.disabled
   /\ (ev.kind \in {"click", "labelclick"} \/ (ev.kind = "keyup" /\ ev.key = Space)))
    => OnChangeCalls(ev.log) = 0 /\ Checked = ev.before

\* C17 amended: the platform-disabled check guards the click path only: a
\* click (direct or replayed from the Label) on such a Toggle calls no
\* onChange, while a Space release on it still calls onChange(!checked).
C17_OnlyClickGuarded ==
  ev.disabled
    => /\ ev.kind \in {"click", "labelclick"} =>
            OnChangeCalls(ev.log) = 0 /\ Checked = ev.before
       /\ (ev.kind = "keyup" /\ ev.key = Space) =>
            /\ OnChangeCalls(ev.log) = 1
            /\ Count(ev.log, OnChangeTok(~ev.before)) = 1
            /\ ~isControlled => Checked = ~ev.before

C17_Witness ==
  /\ ev.disabled /\ ev.kind = "keyup" /\ ev.key = Space
  /\ ~isControlled /\ Checked /\ ~ev.before

\* C18 as stated: a form reset passes the defaultChecked of the latest
\* render to onChange.
C18_ResetUsesLatestDefault ==
  (ev.kind = "reset" /\ mounted)
    => Count(ev.log, OnChangeTok(~DefaultChecked(props).value)) = 0

\* C18 amended (state part): on reset every registered listener calls
\* onChange once with the value it closed over, whatever defaultChecked is
\* in the latest render.
C18_ResetUsesCaptured ==
  (ev.kind = "reset" /\ mounted)
    => \A b \in BOOLEAN :
         Count(ev.log, OnChangeTok(b)) =
           Cardinality({i \in 1..Len(listeners) : listeners[i].defaultChecked = b})

\* C18 amended (step part): a listener closes over the defaultChecked of
\* the render that registered it, and a later render never changes it.
C18_CaptureIsFixed ==
  /\ (mounted /\ mounted') =>
       /\ Len(listeners') >= Len(listeners)
       /\ \A i \in 1..Len(listeners) : listeners'[i] = listeners[i]
  /\ \A i \in (Len(listeners) + 1)..Len(listeners') :
       listeners'[i].defaultChecked = DefaultChecked(props').value

\* C18 amended: the value a form reset passes to onChange is the
\* defaultChecked captured when the reset listener was registered (false
\* when the prop was left out); a defaultChecked passed by a later render
\* is not used unless the effect runs again.
C18_ResetValue ==
  [] C18_ResetUsesCaptured /\ [][C18_CaptureIsFixed]_vars

C18_Witness ==
  /\ ev.kind = "reset" /\ mounted /\ Len(listeners) = 1
  /\ listeners[1].defaultChecked # DefaultChecked(props).value
  /\ Has(ev.log, OnChangeTok(listeners[1].defaultChecked))

\* C19: a keypress of any key only cancels the event, and a key-up of a
\* key other than Space and Enter does nothing: no onChange, no submit,
\* checked unchanged.
C19_OtherKeysDoNothing ==
  /\ ev.kind = "keypress" =>
       /\ ev.log = << "preventDefault" >>
       /\ Checked = ev.before /\ rendered.ariaChecked = ev.before
  /\ (ev.kind = "keyup" /\ ev.key \notin {Space, Enter}) =>
       /\ ev.log = <<>>
       /\ Checked = ev.before /\ rendered.ariaChecked = ev.before

C19_Witness ==
  /\ ev.kind = "keypress" /\ ev.key = Space /\ ~isControlled /\ Checked

\* C11 (state part): the mode decides what checked is: a Controlled
\* instance shows the checked prop (false once the prop is dropped), an
\* Uncontrolled instance shows its internal state even when a checked prop
\* is passed later; a click changes the internal state only when
\* Uncontrolled.
C11_ModeDecidesChecked ==
  mounted =>
    /\ rendered.ariaChecked =
         (IF isControlled THEN props.checked.value ELSE internalValue)
    /\ (ev.kind = "click" /\ ~ev.disabled) =>
         IF isControlled THEN rendered.ariaChecked = ev.before
                         ELSE rendered.ariaChecked = ~ev.before

\* C11 (step part): the first render sets the mode from whether checked is
\* passed, and no later step of the mounted instance changes it.
C11_ModeIsFixed ==
  /\ (~mounted /\ mounted') => isControlled' = props'.checked.defined
  /\ (mounted /\ mounted') => isControlled' = isControlled

\* C11: the ownership mode of a Toggle is fixed by its first render and
\* stays so when later renders add or drop the checked prop.
C11_FirstRenderModeWins ==
  [] C11_ModeDecidesChecked /\ [][C11_ModeIsFixed]_vars

C11_Witness ==
  /\ mounted /\ ~isControlled /\ props.checked.defined /\ ~props.checked.value
  /\ ev.kind = "click" /\ ~ev.disabled /\ ~ev.before /\ rendered.ariaChecked

\* C12: the Toggle's aria-describedby is the space-joined ids of the
\* Descriptions now mounted in its Group, in registration order: two
\* mounted give a string with both, one left gives its id alone, none
\* gives undefined; outside a Group it is undefined.
C12_DescribedByJoinsIds ==
  /\ ~layout.inGroup => descriptions = <<>>
  /\ mounted =>
       /\ descriptions = <<>> => rendered.describedby = NoString
       /\ ~layout.inGroup => ~rendered.describedby.defined
       /\ descriptions = << "d1" >> =>
            rendered.describedby = [defined |-> TRUE, value |-> "d1"]
       /\ descriptions = << "d2" >> =>
            rendered.describedby = [defined |-> TRUE, value |-> "d2"]
       /\ descriptions = << "d1", "d2" >> =>
            rendered.describedby = [defined |-> TRUE, value |-> "d1 d2"]
       /\ descriptions = << "d2", "d1" >> =>
            rendered.describedby = [defined |-> TRUE, value |-> "d2 d1"]
  /\ Len(descriptions) <= 2

C12_Witness ==
  /\ mounted /\ layout.inGroup /\ ev.kind = "description"
  /\ descriptions = << "d1", "d2" >>
  /\ rendered.describedby.value = "d1 d2"

\* C16 as stated: with a Toggle mounted in the Group, a Label click clicks
\* the most recently mounted Toggle that is still mounted.
C16_LastRegisteredWins ==
  (ev.kind = "labelclick" /\ registered # <<>>) =>
    /\ switchElement = registered[Len(registered)]
    /\ Has(ev.log, registered[Len(registered)] \o ".click")

\* C16 amended: the Group's reference is what the last mount or unmount of
\* any Toggle wrote: the element after a mount, null after an unmount even
\* while another Toggle is still mounted. A Label click clicks the
\* referenced Toggle only, and does nothing when the reference is null.
C16_LastWriteWins ==
  /\ ev.kind = "mount" =>
       switchElement = (IF layout.inGroup THEN "switch" ELSE "null")
  /\ ev.kind = "mount2" => switchElement = "switch2"
  /\ ev.kind \in {"unmount", "unmount2"} => switchElement = "null"
  /\ switchElement # "null" =>
       registered # <<>> /\ switchElement = registered[Len(registered)]
  /\ (ev.kind = "labelclick" /\ switchElement = "null") => ev.log = <<>>
  /\ (ev.kind = "labelclick" /\ switchElement = "switch") =>
       /\ Has(ev.log, "switch.click") /\ Count(ev.log, "onClick") = 1
       /\ ~Has(ev.log, "switch2.onClick")
  /\ (ev.kind = "labelclick" /\ switchElement = "switch2") =>
       /\ Has(ev.log, "switch2.click") /\ Count(ev.log, "switch2.onClick") = 1
       /\ ~Has(ev.log, "onClick")

C16_Witness ==
  /\ ev.kind = "labelclick" /\ switchElement = "null" /\ ev.log = <<>>
  /\ mounted /\ ~second.mounted /\ registered = << "switch" >>

====
